---------------------------- MODULE Spec2Model ----------------------------
(***************************************************************************)
(* The circuit graph of src/types.rs: Circuit (nodes, wires, components),  *)
(* Node, ConnectionItem, Wire, the five component variants and the         *)
(* polarity accessors of the two sources.                                  *)
(*                                                                         *)
(* Encoding.  Option<T> is a sequence of length 0 (None) or 1 (Some(v)).   *)
(* Vec<Node> is a sequence; node id i is stored at index i + 1.  A HashMap *)
(* is a function on its key set.  The f64 parameters of the components     *)
(* (resistance, voltage, ...) take no part in any operation of Circuit and *)
(* are left out of the component records.                                  *)
(***************************************************************************)
EXTENDS Integers, Sequences, FiniteSets, TLC

\* Bounds of the exploration.
MaxCalls == 3       \* calls that change the circuit: add_component, connect with Ok

\* Inputs of the callers.
Names == {"R1", "V1"}
Passive == {"Resistor", "Capacitor", "Inductor"}
Sources == {"VoltageSource", "CurrentSource"}
Polarity == {"Normal", "Inverted"}

VARIABLES
    nodes,        \* Circuit.nodes: Vec<Node>
    wires,        \* Circuit.wires: HashMap<usize, Wire>
    components,   \* Circuit.components: HashMap<String, Box<dyn Component>>
    returned,     \* the wires connect has returned with Ok, oldest first
    added,        \* the number of add_component calls made
    last          \* the last call made and what it returned

vars == <<nodes, wires, components, returned, added, last>>

None == <<>>
Some(v) == <<v>>

InvalidNode == "Node does not exist"
SelfConnection == "Cannot connect a node to itself"

-----------------------------------------------------------------------------
\* Node, ConnectionItem, Wire

Node_new(id) == [id |-> id, voltage |-> None, connected |-> <<>>]

\* A push at the front of the list instead of the end.
add_connection_front(node, connection) ==
    [node EXCEPT !.connected = <<connection>> \o @]

add_connection(node, connection) ==
    [node EXCEPT !.connected = Append(@, connection)]

ConnectionItem_Wire(id) == [kind |-> "Wire", id |-> id]
ConnectionItem_Component(name) == [kind |-> "Component", name |-> name]

Wire_new(id, node1, node2) == [node1 |-> node1, node2 |-> node2, id |-> id]

-----------------------------------------------------------------------------
\* Components

BaseComponent(name) ==
    [node1 |-> None, node2 |-> None, name |-> name,
     current |-> None, voltage |-> None]

Passive_new(kind, name) == [kind |-> kind, component |-> BaseComponent(name)]

Source_new(kind, name, polarity) ==
    [kind |-> kind, component |-> BaseComponent(name), polarity |-> polarity]

\* Every component a caller can construct.
Constructed ==
    {Passive_new(k, n) : k \in Passive, n \in Names}
    \cup {Source_new(k[1], n, k[2]) : k \in Sources \X Polarity, n \in Names}

\* The components added to the circuit graph: every passive variant and, as in
\* main, a VoltageSource of Normal polarity.  Circuit reads nothing of a
\* component but its name; the sources of either polarity are added in
\* SpecSource.
Added ==
    {c \in Constructed :
        c.kind \in Passive \/ (c.kind = "VoltageSource" /\ c.polarity = "Normal")}

positive_node(self) ==
    IF self.polarity = "Normal" THEN self.component.node1
    ELSE self.component.node2

negative_node(self) ==
    IF self.polarity = "Normal" THEN self.component.node2
    ELSE self.component.node1

\* The mapping of positive_node taken for input_node.
input_node_as_positive(self) ==
    IF self.polarity = "Normal" THEN self.component.node1
    ELSE self.component.node2

input_node(self) ==
    IF self.polarity = "Normal" THEN self.component.node2
    ELSE self.component.node1

output_node(self) ==
    IF self.polarity = "Normal" THEN self.component.node1
    ELSE self.component.node2

-----------------------------------------------------------------------------
\* Circuit

Init ==
    /\ nodes = <<>>
    /\ wires = <<>>
    /\ components = <<>>
    /\ returned = <<>>
    /\ added = 0
    /\ last = [op |-> "new"]

get_node(ns, id) == IF id < Len(ns) THEN Some(ns[id + 1]) ELSE None

get_component(cs, name) == IF name \in DOMAIN cs THEN Some(cs[name]) ELSE None

\* Ids counted from one.
new_node_one_based(ns) ==
    LET node_id == Len(ns) + 1
    IN  [nodes |-> Append(ns, Node_new(node_id)), id |-> node_id]

\* new_node: the nodes after the call and the id it returns.
new_node(ns) ==
    LET node_id == Len(ns)
    IN  [nodes |-> Append(ns, Node_new(node_id)), id |-> node_id]

\* HashMap::insert: the entry under key is replaced when there is one.
insert(map, key, value) ==
    [k \in DOMAIN map \cup {key} |-> IF k = key THEN value ELSE map[k]]

\* get_node_mut(id).unwrap().add_connection(connection)
connect_node(ns, id, connection) ==
    [ns EXCEPT ![id + 1] = add_connection(@, connection)]

\* Both terminals on the first node.
attached_same(component, node1, node2) ==
    [component EXCEPT !.component.node1 = Some(node1),
                      !.component.node2 = Some(node1)]

\* The component as add_component stores it.
attached(component, node1, node2) ==
    [component EXCEPT !.component.node1 = Some(node1),
                      !.component.node2 = Some(node2)]

\* The calls made so far that changed the circuit.
Calls == added + Len(returned)

AddComponent(component) ==
    /\ Calls < MaxCalls
    /\ LET n1 == new_node(nodes)
           n2 == new_node(n1.nodes)
           node1 == n1.id
           node2 == n2.id
           name == component.component.name
           connection == ConnectionItem_Component(name)
       IN  /\ components' = insert(components, name, attached(component, node1, node2))
           /\ nodes' = connect_node(connect_node(n2.nodes, node1, connection),
                                    node2, connection)
           /\ last' = [op |-> "add_component", name |-> name]
    /\ added' = added + 1
    /\ UNCHANGED <<wires, returned>>

\* The self-connection test made before the range test.
connect_check_self_first(ns, node1, node2) ==
    IF node1 = node2 THEN SelfConnection
    ELSE IF node1 >= Len(ns) \/ node2 >= Len(ns) THEN InvalidNode
    ELSE "Ok"

\* The range test with > for >=.
connect_check_off_by_one(ns, node1, node2) ==
    IF node1 > Len(ns) \/ node2 > Len(ns) THEN InvalidNode
    ELSE IF node1 = node2 THEN SelfConnection
    ELSE "Ok"

\* The two tests connect starts with: the error it returns, or "Ok".
connect_check(ns, node1, node2) ==
    IF node1 >= Len(ns) \/ node2 >= Len(ns) THEN InvalidNode
    ELSE IF node1 = node2 THEN SelfConnection
    ELSE "Ok"

\* connect with the self-connection test made after the first push.
Connect_late_self_test(node1, node2) ==
    IF node1 >= Len(nodes) \/ node2 >= Len(nodes) THEN
        /\ last' = [op |-> "connect", node1 |-> node1, node2 |-> node2,
                    result |-> InvalidNode]
        /\ UNCHANGED <<nodes, wires, components, returned, added>>
    ELSE IF node1 = node2 THEN
        /\ nodes' = connect_node(nodes, node1,
                                 ConnectionItem_Wire(Cardinality(DOMAIN wires)))
        /\ last' = [op |-> "connect", node1 |-> node1, node2 |-> node2,
                    result |-> SelfConnection]
        /\ UNCHANGED <<wires, components, returned, added>>
    ELSE
        /\ Calls < MaxCalls
        /\ LET wire_id == Cardinality(DOMAIN wires)
               wire == Wire_new(wire_id, node1, node2)
               connection == ConnectionItem_Wire(wire_id)
           IN  /\ nodes' = connect_node(connect_node(nodes, node1, connection),
                                        node2, connection)
               /\ returned' = Append(returned, wire)
               /\ last' = [op |-> "connect", node1 |-> node1, node2 |-> node2,
                           result |-> "Ok", wire |-> wire]
        /\ UNCHANGED <<wires, components, added>>

Connect(node1, node2) ==
    IF connect_check(nodes, node1, node2) # "Ok" THEN
        /\ last' = [op |-> "connect", node1 |-> node1, node2 |-> node2,
                    result |-> connect_check(nodes, node1, node2)]
        /\ UNCHANGED <<nodes, wires, components, returned, added>>
    ELSE
        /\ Calls < MaxCalls
        /\ LET wire_id == Cardinality(DOMAIN wires)
               wire == Wire_new(wire_id, node1, node2)
               connection == ConnectionItem_Wire(wire_id)
           IN  /\ nodes' = connect_node(connect_node(nodes, node1, connection),
                                        node2, connection)
               /\ returned' = Append(returned, wire)
               /\ last' = [op |-> "connect", node1 |-> node1, node2 |-> node2,
                           result |-> "Ok", wire |-> wire]
        /\ UNCHANGED <<wires, components, added>>

GetNode(id) ==
    /\ last' = [op |-> "get_node", id |-> id, result |-> get_node(nodes, id)]
    /\ UNCHANGED <<nodes, wires, components, returned, added>>

GetComponent(name) ==
    /\ last' = [op |-> "get_component", name |-> name,
                result |-> get_component(components, name)]
    /\ UNCHANGED <<nodes, wires, components, returned, added>>

\* The sources a caller holds: those stored in the circuit and those it has
\* constructed and not added.
Held(kind) ==
    {c \in {components[n] : n \in DOMAIN components} \cup Constructed :
        c.kind = kind}

PositiveNode(self) ==
    /\ last' = [op |-> "positive_node", self |-> self, result |-> positive_node(self)]
    /\ UNCHANGED <<nodes, wires, components, returned, added>>

NegativeNode(self) ==
    /\ last' = [op |-> "negative_node", self |-> self, result |-> negative_node(self)]
    /\ UNCHANGED <<nodes, wires, components, returned, added>>

InputNode(self) ==
    /\ last' = [op |-> "input_node", self |-> self, result |-> input_node(self)]
    /\ UNCHANGED <<nodes, wires, components, returned, added>>

OutputNode(self) ==
    /\ last' = [op |-> "output_node", self |-> self, result |-> output_node(self)]
    /\ UNCHANGED <<nodes, wires, components, returned, added>>

\* Node ids a caller passes: every valid index and one past the end.
NodeArgs == 0..Len(nodes)

Next ==
    \/ \E c \in Added : AddComponent(c)
    \/ \E a, b \in NodeArgs : Connect(a, b)
    \/ \E id \in NodeArgs : GetNode(id)
    \/ \E name \in Names \cup {"X9"} : GetComponent(name)

Spec == Init /\ [][Next]_vars

\* The sources alone: they are added to a circuit and asked for their terminals.
NextSource ==
    \/ \E c \in {s \in Constructed : s.kind \in Sources} : AddComponent(c)
    \/ \E c \in Held("VoltageSource") : PositiveNode(c)
    \/ \E c \in Held("VoltageSource") : NegativeNode(c)
    \/ \E c \in Held("CurrentSource") : InputNode(c)
    \/ \E c \in Held("CurrentSource") : OutputNode(c)

SpecSource == Init /\ [][NextSource]_vars

-----------------------------------------------------------------------------
\* What the claims speak of

NodeIds == 0..(Len(nodes) - 1)

Connected(n) == nodes[n + 1].connected

HasItem(n, item) == \E i \in 1..Len(Connected(n)) : Connected(n)[i] = item

Terminals(c) == {c.component.node1, c.component.node2}

AccessorOps == {"positive_node", "negative_node", "input_node", "output_node"}

-----------------------------------------------------------------------------
\* C1: for every node n, connected holds Component(name) exactly when the
\* component stored under name has n as node1 or node2, and Wire(id) exactly
\* when the circuit's wire with that id has n as an endpoint.
C1_ConnectedExact ==
    \A n \in NodeIds :
        /\ \A name \in Names :
              HasItem(n, ConnectionItem_Component(name))
              <=> (name \in DOMAIN components
                   /\ Some(n) \in Terminals(components[name]))
        /\ \A id \in 0..MaxCalls :
              HasItem(n, ConnectionItem_Wire(id))
              <=> (id \in DOMAIN wires
                   /\ n \in {wires[id].node1, wires[id].node2})

\* C2: the k-th successful connect (from 0) returns a wire whose id is k, so
\* no two wires returned by connect share an id.
C2_DenseWireIds ==
    \A k \in 1..Len(returned) : returned[k].id = k - 1

\* C3: a connect(a, b) that returns Ok had a and b valid and distinct; a and b
\* each gain exactly one entry, at the end of connected, a Wire entry with the
\* id of the returned wire; that id is the wire count before the call; the
\* returned wire has node1 = a and node2 = b; no other node's list changes.
C3_ConnectAppendsWire ==
    [][(last'.op = "connect" /\ last'.result = "Ok") =>
        LET a == last'.node1
            b == last'.node2
            w == last'.wire
        IN  /\ a < Len(nodes) /\ b < Len(nodes) /\ a # b
            /\ w.node1 = a /\ w.node2 = b
            /\ w.id = Cardinality(DOMAIN wires)
            /\ Len(nodes') = Len(nodes)
            /\ \A n \in NodeIds :
                  nodes'[n + 1].connected =
                      IF n \in {a, b}
                      THEN Append(Connected(n), [kind |-> "Wire", id |-> w.id])
                      ELSE Connected(n)
      ]_vars

C3_Witness ==
    /\ last.op = "connect" /\ last.result = "Ok"
    /\ last.node1 = 3 /\ last.node2 = 0
    /\ Len(Connected(3)) = 2 /\ Len(Connected(0)) = 2

\* C4: connect(a, b) returns InvalidNode when a or b is no index of nodes (also
\* when a = b), else SelfConnection when a = b, else Ok; no wire returned by
\* connect has node1 = node2.
C4_ConnectCheckOrder ==
    /\ last.op = "connect" =>
          last.result =
              IF ~(last.node1 \in NodeIds /\ last.node2 \in NodeIds)
              THEN "Node does not exist"
              ELSE IF last.node1 = last.node2
              THEN "Cannot connect a node to itself"
              ELSE "Ok"
    /\ \A k \in 1..Len(returned) : returned[k].node1 # returned[k].node2

C4_Witness ==
    /\ last.op = "connect" /\ last.result = InvalidNode
    /\ last.node1 = last.node2
    /\ Len(nodes) > 0 /\ Len(returned) > 0

\* C5: a connect that returns an error leaves the node count, every connected
\* list, wires, components and the id of the next wire as they were.
C5_FailedConnectNoEffect ==
    [][(last'.op = "connect" /\ last'.result # "Ok") =>
        /\ nodes' = nodes
        /\ wires' = wires
        /\ components' = components
        /\ returned' = returned
        /\ Cardinality(DOMAIN wires') = Cardinality(DOMAIN wires)
      ]_vars

C5_Witness ==
    /\ last.op = "connect" /\ last.result = SelfConnection
    /\ Len(returned) > 0 /\ Len(Connected(last.node1)) > 1

\* C6: add_component on n nodes appends the nodes n and n + 1 and nothing
\* else, the added component gets node1 = n and node2 = n + 1, no component
\* and no wire held n or n + 1 before, and each of the two nodes ends with the
\* single entry Component(name).
C6_AddComponentFreshNodes ==
    [][last'.op = "add_component" =>
        LET n == Len(nodes)
            name == last'.name
            c == components'[name].component
        IN  /\ Len(nodes') = n + 2
            /\ SubSeq(nodes', 1, n) = nodes
            /\ nodes'[n + 1].id = n /\ nodes'[n + 2].id = n + 1
            /\ c.node1 = Some(n) /\ c.node2 = Some(n + 1)
            /\ c.node1 # None /\ c.node2 # None /\ c.node1 # c.node2
            /\ \A m \in DOMAIN components :
                  Terminals(components[m]) \cap {Some(n), Some(n + 1)} = {}
            /\ \A k \in 1..Len(returned) :
                  {returned[k].node1, returned[k].node2} \cap {n, n + 1} = {}
            /\ \A id \in DOMAIN wires :
                  {wires[id].node1, wires[id].node2} \cap {n, n + 1} = {}
            /\ nodes'[n + 1].connected = <<[kind |-> "Component", name |-> name]>>
            /\ nodes'[n + 2].connected = <<[kind |-> "Component", name |-> name]>>
      ]_vars

C6_Witness ==
    /\ last.op = "add_component"
    /\ Len(nodes) = 4 /\ Len(returned) = 1
    /\ DOMAIN components = {last.name}

\* C7: every node id held by a stored component, by a wire of the circuit or
\* one returned by connect, or reached through a connection entry, is below
\* nodes.len().
C7_NodeIdsValid ==
    /\ \A m \in DOMAIN components :
          \A t \in Terminals(components[m]) : t # None /\ t[1] \in NodeIds
    /\ \A k \in 1..Len(returned) :
          returned[k].node1 \in NodeIds /\ returned[k].node2 \in NodeIds
    /\ \A id \in DOMAIN wires :
          wires[id].node1 \in NodeIds /\ wires[id].node2 \in NodeIds
    /\ \A n \in NodeIds : \A i \in 1..Len(Connected(n)) :
          LET item == Connected(n)[i]
          IN  IF item.kind = "Component"
              THEN /\ item.name \in DOMAIN components
                   /\ \A t \in Terminals(components[item.name]) : t[1] \in NodeIds
              ELSE \E k \in 1..Len(returned) :
                      /\ returned[k].id = item.id
                      /\ n \in {returned[k].node1, returned[k].node2}

C7_Witness ==
    /\ Cardinality(DOMAIN components) = 2
    /\ \E k \in 1..Len(returned) : returned[k].node1 = Len(nodes) - 1
    /\ last.op = "connect" /\ last.result = InvalidNode

\* C8: no call changes the node1/node2 of a component stored under a name: an
\* add_component under a name already present leaves them as they were.
C8_TerminalsNeverReassigned ==
    [][\A name \in DOMAIN components :
          /\ name \in DOMAIN components'
          /\ components'[name].component.node1 = components[name].component.node1
          /\ components'[name].component.node2 = components[name].component.node2
      ]_vars

\* C9 as stated: positive_node and input_node give node1 under Normal and
\* node2 under Inverted, negative_node and output_node the other one.
C9_SameMappingForBothSources ==
    last.op \in AccessorOps =>
        LET first == IF last.self.polarity = "Normal"
                     THEN last.self.component.node1
                     ELSE last.self.component.node2
            second == IF last.self.polarity = "Normal"
                      THEN last.self.component.node2
                      ELSE last.self.component.node1
        IN  last.result = IF last.op \in {"positive_node", "input_node"}
                          THEN first ELSE second

\* C9 amended: positive_node gives node1 under Normal and node2 under
\* Inverted, negative_node the other one; input_node gives node2 under Normal
\* and node1 under Inverted, output_node the other one; an accessor changes no
\* component and gives None for a terminal that is not assigned.
C9_PolarityMapping ==
    /\ [](last.op \in AccessorOps =>
            LET normal == last.self.polarity = "Normal"
                n1 == last.self.component.node1
                n2 == last.self.component.node2
            IN  /\ last.self.polarity \in Polarity
                /\ last.op = "positive_node" => last.result = IF normal THEN n1 ELSE n2
                /\ last.op = "negative_node" => last.result = IF normal THEN n2 ELSE n1
                /\ last.op = "input_node" => last.result = IF normal THEN n2 ELSE n1
                /\ last.op = "output_node" => last.result = IF normal THEN n1 ELSE n2
                /\ (n1 = None /\ n2 = None) => last.result = None)
    /\ [][last'.op \in AccessorOps =>
            /\ components' = components
            /\ nodes' = nodes
         ]_vars

C9_Witness ==
    /\ last.op = "input_node"
    /\ last.self.polarity = "Normal"
    /\ last.self.component.node1 = Some(2)
    /\ last.result = Some(3)

\* C10: across every call the node count stays twice the number of
\* add_component calls made and only add_component changes it; a call that
\* changes nodes leaves the node at index i with id i, removes and renumbers
\* no node and keeps every connected list as a prefix of the new one.
C10_NodesAppendOnly ==
    [][/\ Len(nodes) = 2 * added
       /\ Len(nodes') = 2 * added'
       /\ Len(nodes') # Len(nodes) => last'.op = "add_component"
       /\ last'.op = "add_component" => added' = added + 1
       /\ nodes' # nodes =>
             /\ Len(nodes') >= Len(nodes)
             /\ \A i \in 0..(Len(nodes') - 1) : nodes'[i + 1].id = i
             /\ \A i \in NodeIds :
                   /\ nodes'[i + 1].id = nodes[i + 1].id
                   /\ Len(nodes'[i + 1].connected) >= Len(Connected(i))
                   /\ SubSeq(nodes'[i + 1].connected, 1, Len(Connected(i)))
                          = Connected(i)
      ]_vars

C10_Witness ==
    /\ added = 3 /\ Len(nodes) = 6
    /\ Cardinality(DOMAIN components) = 1
    /\ nodes[6].id = 5

=============================================================================
